---- MODULE Spec2Model ----
(***************************************************************************)
(* AniSystemd (src/src/main.rs): a supervisor shim that runs the bot under *)
(* systemd, watches ./plugins for plugin/service artifacts and races the   *)
(* bot, the change signal and Ctrl+C in one tokio::select!.                *)
(*                                                                         *)
(* Tasks of the model: the main task (pc), the watchdog task (wd), the     *)
(* background monitor task (mon), the notify-crate callback thread         *)
(* (WatcherCallback), the bot (worker) and the operator (Interrupt).       *)
(***************************************************************************)
EXTENDS Integers, Sequences, FiniteSets, TLC

\* ------------------------------------------------------------------ bounds
\* notify_one() calls followed per run
MaxRaises == 2
\* watchdog timer expirations followed per run
MaxBeats == 1

\* -------------------------------------------------------- file names, paths
\* A file name is a sequence of characters; ends_with works on characters.
P_plugin  == <<"_", "p", "l", "u", "g", "i", "n">>
P_service == <<"_", "s", "e", "r", "v", "i", "c", "e">>
E_so      == <<".", "s", "o">>
E_dll     == <<".", "d", "l", "l">>
E_dylib   == <<".", "d", "y", "l", "i", "b">>
E_txt     == <<".", "t", "x", "t">>
E_SO      == <<".", "S", "O">>
T_bak     == <<".", "b", "a", "k">>

\* the six literals of the closure, in the order of the || chain
SUFFIXES ==
  << P_plugin \o E_so,  P_plugin \o E_dll,  P_plugin \o E_dylib,
     P_service \o E_so, P_service \o E_dll, P_service \o E_dylib >>

\* str::ends_with
ends_with(s, suf) ==
  /\ Len(s) >= Len(suf)
  /\ SubSeq(s, Len(s) - Len(suf) + 1, Len(s)) = suf

\* A path as Path::file_name sees it: its final component is a normal name,
\* `..`, or absent (the root); the name may fail to_str (not UTF-8).
MkPath(c, u, n) == [comp |-> c, utf8 |-> u, name |-> n]
File(n) == MkPath("Normal", TRUE, n)

\* path.file_name().and_then(|n| n.to_str()) : <<name>> for Some, <<>> for None
file_name_str(path) ==
  IF path.comp = "Normal" /\ path.utf8 THEN << path.name >> ELSE << >>

\* the closure given to event.paths.iter().any(..)
path_matches_one_suffix(path) ==
  LET fn == file_name_str(path) IN
    IF fn # << >> THEN ends_with(fn[1], SUFFIXES[1]) ELSE FALSE

path_matches(path) ==
  LET fn == file_name_str(path) IN
    IF fn # << >>
      THEN \E i \in 1..Len(SUFFIXES) : ends_with(fn[1], SUFFIXES[i])
      ELSE FALSE

is_plugin_or_service(event) ==
  \E i \in 1..Len(event.paths) : path_matches(event.paths[i])

\* notify::EventKind, with the payload that tells a metadata-only Modify
\* from a content Modify (the match arm is Modify(_), any payload)
MkKind(t, s) == [tag |-> t, sub |-> s]
EventKinds ==
  { MkKind("Any", "None"), MkKind("Access", "Open"), MkKind("Create", "File"),
    MkKind("Modify", "Data"), MkKind("Modify", "Metadata"),
    MkKind("Remove", "File"), MkKind("Other", "None") }

kind_no_modify(kind) == kind.tag \in {"Create", "Remove"}

\* EventKind::Create(_) | EventKind::Modify(_) | EventKind::Remove(_)
kind_triggers(kind) == kind.tag \in {"Create", "Modify", "Remove"}

\* std::result::Result<NotifyEvent, notify::Error> handed to the callback
OkEvent(ps, k) == [ok |-> TRUE, paths |-> ps, kind |-> k]
BackendError   == [ok |-> FALSE, paths |-> << >>, kind |-> MkKind("Other", "None")]

\* whether the callback reaches notify_clone.notify_one()
callback_raises(res) ==
  /\ res.ok
  /\ is_plugin_or_service(res)
  /\ kind_triggers(res.kind)

\* ------------------------------------------------------------ input sets
X == << "x" >>
Stems == { << >>, X }
Mids  == { << >>, P_plugin, P_service, Tail(P_plugin) }
Exts  == { << >>, E_so, E_dll, E_dylib, E_txt }
AllNames ==
  { s \o m \o e : s \in Stems, m \in Mids, e \in Exts }
    \cup { X \o P_plugin \o E_so \o T_bak,
           X \o P_service \o E_dylib \o T_bak,
           X \o P_plugin \o E_SO,
           E_so \o X \o P_plugin }
AllPaths ==
  { File(n) : n \in AllNames }
    \cup { MkPath("Normal", FALSE, X \o P_plugin \o E_so),
           MkPath("ParentDir", TRUE, << >>),
           MkPath("RootDir", TRUE, << >>) }

\* the paths combined in events that carry two paths (a rename, say)
PairPaths ==
  { File(X \o P_plugin \o E_dll), File(X \o E_so),
    File(X \o P_service \o E_dylib \o T_bak), MkPath("ParentDir", TRUE, << >>) }

PathLists ==
  { << >> }
    \cup { << p >> : p \in AllPaths }
    \cup { << p, q >> : p \in PairPaths, q \in PairPaths }

\* every result the filter specification feeds to the callback
AllResults ==
  { OkEvent(ps, k) : ps \in PathLists, k \in EventKinds } \cup { BackendError }

\* the results the coordinator specification feeds to the callback
CoreResults ==
  { OkEvent(<< File(X \o P_plugin \o E_so) >>, MkKind("Create", "File")),
    OkEvent(<< File(X \o P_service \o E_dll) >>, MkKind("Modify", "Metadata")),
    OkEvent(<< File(X \o P_plugin \o E_so) >>, MkKind("Access", "Open")),
    OkEvent(<< File(X \o E_so) >>, MkKind("Create", "File")),
    BackendError }

\* ------------------------------------------------------------------ state
VARIABLES
  pc,              \* position of the main task
  exitCode,        \* process exit status, -1 while the process runs
  exitVia,         \* which statement ended the process
  dirExists,       \* ./plugins exists
  watching,        \* the watcher is registered and its callback can run
  worker,          \* the bot: "none", "idle", "running", "ok", "err"
  ready,           \* READY notification: "none", "sent", "failed"
  wd,              \* watchdog task
  beats,           \* watchdog timer expirations so far
  wdSent,          \* WATCHDOG notifications attempted
  wdLast,          \* result of the last WATCHDOG notification
  notify,          \* the tokio Notify: permit, FIFO of waiters, woken waiters
  mon,             \* the background monitor task
  arm,             \* the Notified future of the select! arm
  interrupted,     \* Ctrl+C was delivered
  should_restart,  \* the Mutex<bool>
  outcome,         \* which select! arm ran
  bot_result,      \* value of the select! expression
  flagRead,        \* should_restart_flag: "unread", "true", "false"
  raises,          \* notify_one() calls so far
  last,            \* the last callback invocation and what it did
  observed,        \* Notified futures that completed
  restartLogs,     \* "Plugin change detected, ..." decisions logged
  raceRaise,       \* kind of the first raise made while the race was pending
                   \* with the bot running and no Ctrl+C; "none" before it
  contended,       \* the bot finished or Ctrl+C came while the change arm
                   \* was ready and not yet polled
  intFirst         \* Ctrl+C came while the bot had not finished

vars ==
  << pc, exitCode, exitVia, dirExists, watching, worker, ready, wd, beats,
     wdSent, wdLast, notify, mon, arm, interrupted, should_restart, outcome,
     bot_result, flagRead, raises, last, observed, restartLogs, raceRaise,
     contended, intFirst >>

mainVars  == << pc, exitCode, exitVia, outcome, bot_result, flagRead >>
setupVars == << dirExists, watching >>
wdVars    == << wd, beats, wdSent, wdLast >>
ghostVars == << raises, last, raceRaise, contended, intFirst >>

Waiters == { "monitor", "race" }

\* ------------------------------------------------------- tokio::sync::Notify
\* Notify::new()
NotifyNew == [permit |-> FALSE, waiters |-> << >>, woken |-> { }]

notify_one_wakesAll(n) ==
  IF n.waiters # << >>
    THEN [n EXCEPT !.waiters = << >>,
                   !.woken = @ \cup { n.waiters[i] : i \in DOMAIN n.waiters }]
    ELSE [n EXCEPT !.permit = TRUE]

\* Notify::notify_one: wake the longest-waiting waiter, else keep one permit
notify_one(n) ==
  IF n.waiters # << >>
    THEN [n EXCEPT !.waiters = Tail(@), !.woken = @ \cup { Head(n.waiters) }]
    ELSE [n EXCEPT !.permit = TRUE]

\* first poll of a Notified future when a permit is stored
take_permit(n) == [n EXCEPT !.permit = FALSE]

\* first poll of a Notified future when no permit is stored
enqueue(n, id) == [n EXCEPT !.waiters = Append(@, id)]

\* poll of a woken Notified future
take_wakeup(n, id) == [n EXCEPT !.woken = @ \ { id }]

\* drop of a Notified future: a waiter leaves the queue; a woken one that
\* never observed its wake-up hands it on
drop_notified(n, id) ==
  IF id \in n.woken
    THEN notify_one([n EXCEPT !.woken = @ \ { id }])
    ELSE [n EXCEPT !.waiters = SelectSeq(@, LAMBDA w : w # id)]

\* the select! arm `plugin_changed.notified()` would complete if polled
RaceArmReady ==
  \/ "race" \in notify.woken
  \/ arm = "init" /\ notify.permit

Running == pc = "select"
Alive   == pc # "exited"

NoCall ==
  [called |-> FALSE, res |-> BackendError, matched |-> FALSE, raised |-> FALSE]

\* ------------------------------------------------------------------- Init
Init ==
  /\ pc = "start_watcher"
  /\ exitCode = -1
  /\ exitVia = "none"
  /\ dirExists \in BOOLEAN
  /\ watching = FALSE
  /\ worker = "none"
  /\ ready = "none"
  /\ wd = "none"
  /\ beats = 0
  /\ wdSent = 0
  /\ wdLast = "none"
  /\ notify = NotifyNew
  /\ mon = "unspawned"
  /\ arm = "none"
  /\ interrupted = FALSE
  /\ should_restart = FALSE
  /\ outcome = "None"
  /\ bot_result = "none"
  /\ flagRead = "unread"
  /\ raises = 0
  /\ last = NoCall
  /\ observed = 0
  /\ restartLogs = 0
  /\ raceRaise = "none"
  /\ contended = FALSE
  /\ intFirst = FALSE

\* ------------------------------------------------------- main task: startup
SetupResults == { "ok", "mkdir_failed", "create_failed", "watch_failed" }

\* `return Err(..)` from main, or the `?` operator
Fail(via) ==
  /\ pc' = "exited"
  /\ exitCode' = 1
  /\ exitVia' = via

StartPluginWatcher_swallow(res) ==
  /\ pc = "start_watcher"
  /\ res = "mkdir_failed" => ~dirExists
  /\ dirExists' = (dirExists \/ res # "mkdir_failed")
  /\ watching' = (res = "ok")
  /\ pc' = "bot_new"
  /\ UNCHANGED << exitCode, exitVia, outcome, bot_result, flagRead >>
  /\ UNCHANGED << worker, ready, wdVars, notify, mon, arm, interrupted,
                  should_restart, observed, restartLogs, ghostVars >>

\* start_plugin_watcher(plugins_dir, plugin_changed_clone).await?
\* res is the first step of it that fails, or "ok"
StartPluginWatcher(res) ==
  /\ pc = "start_watcher"
  /\ res = "mkdir_failed" => ~dirExists
  /\ dirExists' = (dirExists \/ res # "mkdir_failed")
  /\ watching' = (res = "ok")
  /\ IF res = "ok"
       THEN /\ pc' = "bot_new"
            /\ UNCHANGED << exitCode, exitVia >>
       ELSE Fail(res)
  /\ UNCHANGED << outcome, bot_result, flagRead >>
  /\ UNCHANGED << worker, ready, wdVars, notify, mon, arm, interrupted,
                  should_restart, observed, restartLogs, ghostVars >>

BotNew_ignoresError(ok) ==
  /\ pc = "bot_new"
  /\ worker' = IF ok THEN "idle" ELSE worker
  /\ pc' = "notify_ready"
  /\ UNCHANGED << exitCode, exitVia >>
  /\ UNCHANGED << outcome, bot_result, flagRead >>
  /\ UNCHANGED << setupVars, ready, wdVars, notify, mon, arm, interrupted,
                  should_restart, observed, restartLogs, ghostVars >>

\* let bot = Bot::new().await?
BotNew(ok) ==
  /\ pc = "bot_new"
  /\ IF ok
       THEN /\ worker' = "idle"
            /\ pc' = "notify_ready"
            /\ UNCHANGED << exitCode, exitVia >>
       ELSE /\ Fail("bot_new_failed")
            /\ UNCHANGED worker
  /\ UNCHANGED << outcome, bot_result, flagRead >>
  /\ UNCHANGED << setupVars, ready, wdVars, notify, mon, arm, interrupted,
                  should_restart, observed, restartLogs, ghostVars >>

NotifyReady_fatal(ok) ==
  /\ pc = "notify_ready"
  /\ ready' = IF ok THEN "sent" ELSE "failed"
  /\ IF ok
       THEN /\ pc' = "spawn_watchdog"
            /\ UNCHANGED << exitCode, exitVia >>
       ELSE Fail("ready_failed")
  /\ UNCHANGED << outcome, bot_result, flagRead >>
  /\ UNCHANGED << setupVars, worker, wdVars, notify, mon, arm, interrupted,
                  should_restart, observed, restartLogs, ghostVars >>

\* libsystemd::daemon::notify(false, &[NotifyState::Ready]), result only logged
NotifyReady(ok) ==
  /\ pc = "notify_ready"
  /\ ready' = IF ok THEN "sent" ELSE "failed"
  /\ pc' = "spawn_watchdog"
  /\ UNCHANGED << exitCode, exitVia, outcome, bot_result, flagRead >>
  /\ UNCHANGED << setupVars, worker, wdVars, notify, mon, arm, interrupted,
                  should_restart, observed, restartLogs, ghostVars >>

\* let watchdog_handle = tokio::spawn(..)
SpawnWatchdog ==
  /\ pc = "spawn_watchdog"
  /\ wd' = "sleeping"
  /\ pc' = "spawn_monitor"
  /\ UNCHANGED << exitCode, exitVia, outcome, bot_result, flagRead >>
  /\ UNCHANGED << setupVars, worker, ready, beats, wdSent, wdLast, notify, mon,
                  arm, interrupted, should_restart, observed, restartLogs,
                  ghostVars >>

\* should_restart = Mutex::new(false); tokio::spawn(monitor); the select!
\* expression creates its three futures
SpawnMonitor ==
  /\ pc = "spawn_monitor"
  /\ mon' = "init"
  /\ arm' = "init"
  /\ pc' = "select"
  /\ UNCHANGED << exitCode, exitVia, outcome, bot_result, flagRead >>
  /\ UNCHANGED << setupVars, worker, ready, wdVars, notify, interrupted,
                  should_restart, observed, restartLogs, ghostVars >>

\* --------------------------------------------------- main task: the select!
\* how the losing `notified()` arm leaves the Notify when the select! ends
DropArm ==
  /\ notify' = IF arm = "waiting" THEN drop_notified(notify, "race") ELSE notify
  /\ arm' = "dropped"

\* first poll of the select! with no arm ready: the bot starts running and
\* the change arm joins the waiters of the Notify
SelectBlock ==
  /\ pc = "select"
  /\ arm = "init"
  /\ ~notify.permit
  /\ ~interrupted
  /\ worker = "idle"
  /\ worker' = "running"
  /\ arm' = "waiting"
  /\ notify' = enqueue(notify, "race")
  /\ UNCHANGED mainVars
  /\ UNCHANGED << setupVars, ready, wdVars, mon, interrupted, should_restart,
                  observed, restartLogs, ghostVars >>

SelectWorker_late ==
  /\ pc \in { "select", "arm_sleep" }
  /\ worker \in { "ok", "err" }
  /\ outcome' = IF worker = "ok" THEN "WorkerOk" ELSE "WorkerErr"
  /\ bot_result' = IF worker = "ok" THEN "Ok" ELSE "Err"
  /\ IF pc = "select" THEN DropArm ELSE UNCHANGED << notify, arm >>
  /\ pc' = "abort_watchdog"
  /\ UNCHANGED << exitCode, exitVia, flagRead >>
  /\ UNCHANGED << setupVars, worker, ready, wdVars, mon, interrupted,
                  should_restart, observed, restartLogs, ghostVars >>

SelectWorker_dropsError ==
  /\ pc = "select"
  /\ worker \in { "ok", "err" }
  /\ outcome' = "WorkerOk"
  /\ bot_result' = "Ok"
  /\ DropArm
  /\ pc' = "abort_watchdog"
  /\ UNCHANGED << exitCode, exitVia, flagRead >>
  /\ UNCHANGED << setupVars, worker, ready, wdVars, mon, interrupted,
                  should_restart, observed, restartLogs, ghostVars >>

\* arm 1: result = bot.start() => result
SelectWorker ==
  /\ pc = "select"
  /\ worker \in { "ok", "err" }
  /\ outcome' = IF worker = "ok" THEN "WorkerOk" ELSE "WorkerErr"
  /\ bot_result' = IF worker = "ok" THEN "Ok" ELSE "Err"
  /\ DropArm
  /\ pc' = "abort_watchdog"
  /\ UNCHANGED << exitCode, exitVia, flagRead >>
  /\ UNCHANGED << setupVars, worker, ready, wdVars, mon, interrupted,
                  should_restart, observed, restartLogs, ghostVars >>

\* arm 2: _ = plugin_changed.notified() => { info!(..); sleep(1s) ...
SelectChanged ==
  /\ pc = "select"
  /\ RaceArmReady
  /\ notify' = IF "race" \in notify.woken
                 THEN take_wakeup(notify, "race")
                 ELSE take_permit(notify)
  /\ arm' = "done"
  /\ observed' = observed + 1
  /\ restartLogs' = restartLogs + 1
  /\ outcome' = "PluginChanged"
  /\ pc' = "arm_sleep"
  /\ UNCHANGED << exitCode, exitVia, bot_result, flagRead >>
  /\ UNCHANGED << setupVars, worker, ready, wdVars, mon, interrupted,
                  should_restart, ghostVars >>

\* ... *should_restart.lock().await = true; Ok(()) }
ArmSleepDone ==
  /\ pc = "arm_sleep"
  /\ should_restart' = TRUE
  /\ bot_result' = "Ok"
  /\ pc' = "abort_watchdog"
  /\ UNCHANGED << exitCode, exitVia, outcome, flagRead >>
  /\ UNCHANGED << setupVars, worker, ready, wdVars, notify, mon, arm,
                  interrupted, observed, restartLogs, ghostVars >>

SelectCtrlC_setsFlag ==
  /\ pc = "select"
  /\ interrupted
  /\ outcome' = "Interrupted"
  /\ bot_result' = "Ok"
  /\ should_restart' = TRUE
  /\ DropArm
  /\ pc' = "abort_watchdog"
  /\ UNCHANGED << exitCode, exitVia, flagRead >>
  /\ UNCHANGED << setupVars, worker, ready, wdVars, mon, interrupted,
                  observed, restartLogs, ghostVars >>

\* arm 3: _ = tokio::signal::ctrl_c() => { info!(..); Ok(()) }
SelectCtrlC ==
  /\ pc = "select"
  /\ interrupted
  /\ outcome' = "Interrupted"
  /\ bot_result' = "Ok"
  /\ DropArm
  /\ pc' = "abort_watchdog"
  /\ UNCHANGED << exitCode, exitVia, flagRead >>
  /\ UNCHANGED << setupVars, worker, ready, wdVars, mon, interrupted,
                  should_restart, observed, restartLogs, ghostVars >>

\* ---------------------------------------------------- main task: shutdown
AbortWatchdog_onlyOnSuccess ==
  /\ pc = "abort_watchdog"
  /\ wd' = IF bot_result = "Err"
             THEN wd
             ELSE IF wd = "sending" THEN "cancelling" ELSE "aborted"
  /\ pc' = "check_result"
  /\ UNCHANGED << exitCode, exitVia, outcome, bot_result, flagRead >>
  /\ UNCHANGED << setupVars, worker, ready, beats, wdSent, wdLast, notify, mon,
                  arm, interrupted, should_restart, observed, restartLogs,
                  ghostVars >>

\* watchdog_handle.abort(): a sleeping task is cancelled at once, one inside
\* the synchronous notify call when that call returns
AbortWatchdog ==
  /\ pc = "abort_watchdog"
  /\ wd' = IF wd = "sending" THEN "cancelling" ELSE "aborted"
  /\ pc' = "check_result"
  /\ UNCHANGED << exitCode, exitVia, outcome, bot_result, flagRead >>
  /\ UNCHANGED << setupVars, worker, ready, beats, wdSent, wdLast, notify, mon,
                  arm, interrupted, should_restart, observed, restartLogs,
                  ghostVars >>

CheckResult_flagFirst ==
  /\ pc = "check_result"
  /\ IF bot_result = "Err" /\ ~should_restart
       THEN Fail("worker_error")
       ELSE /\ pc' = "read_flag"
            /\ UNCHANGED << exitCode, exitVia >>
  /\ UNCHANGED << outcome, bot_result, flagRead >>
  /\ UNCHANGED << setupVars, worker, ready, wdVars, notify, mon, arm,
                  interrupted, should_restart, observed, restartLogs,
                  ghostVars >>

\* if let Err(e) = bot_result { error!(..); return Err(e.into()); }
CheckResult ==
  /\ pc = "check_result"
  /\ IF bot_result = "Err"
       THEN Fail("worker_error")
       ELSE /\ pc' = "read_flag"
            /\ UNCHANGED << exitCode, exitVia >>
  /\ UNCHANGED << outcome, bot_result, flagRead >>
  /\ UNCHANGED << setupVars, worker, ready, wdVars, notify, mon, arm,
                  interrupted, should_restart, observed, restartLogs,
                  ghostVars >>

\* let should_restart_flag = *should_restart.lock().await
ReadFlag ==
  /\ pc = "read_flag"
  /\ flagRead' = IF should_restart THEN "true" ELSE "false"
  /\ pc' = "exit_decision"
  /\ UNCHANGED << exitCode, exitVia, outcome, bot_result >>
  /\ UNCHANGED << setupVars, worker, ready, wdVars, notify, mon, arm,
                  interrupted, should_restart, observed, restartLogs,
                  ghostVars >>

\* if should_restart_flag { std::process::exit(0); }  Ok(())
Exit ==
  /\ pc = "exit_decision"
  /\ pc' = "exited"
  /\ exitCode' = 0
  /\ exitVia' = IF flagRead = "true" THEN "restart_exit" ELSE "return_ok"
  /\ UNCHANGED << outcome, bot_result, flagRead >>
  /\ UNCHANGED << setupVars, worker, ready, wdVars, notify, mon, arm,
                  interrupted, should_restart, observed, restartLogs,
                  ghostVars >>

\* ------------------------------------------------------------ monitor task
MonitorPoll_noWait ==
  /\ Alive
  /\ mon = "init"
  /\ mon' = "woken"
  /\ notify' = take_permit(notify)
  /\ observed' = observed + 1
  /\ UNCHANGED mainVars
  /\ UNCHANGED << setupVars, worker, ready, wdVars, arm, interrupted,
                  should_restart, restartLogs, ghostVars >>

\* plugin_changed_monitor.notified().await
MonitorPoll ==
  /\ Alive
  /\ \/ /\ mon = "init"
        /\ IF notify.permit
             THEN /\ notify' = take_permit(notify)
                  /\ mon' = "woken"
                  /\ observed' = observed + 1
             ELSE /\ notify' = enqueue(notify, "monitor")
                  /\ mon' = "waiting"
                  /\ UNCHANGED observed
     \/ /\ mon = "waiting"
        /\ "monitor" \in notify.woken
        /\ notify' = take_wakeup(notify, "monitor")
        /\ mon' = "woken"
        /\ observed' = observed + 1
  /\ UNCHANGED mainVars
  /\ UNCHANGED << setupVars, worker, ready, wdVars, arm, interrupted,
                  should_restart, restartLogs, ghostVars >>

\* info!("Plugin change detected, will trigger restart after bot shutdown...")
MonitorLog ==
  /\ Alive
  /\ mon = "woken"
  /\ mon' = "logged"
  /\ restartLogs' = restartLogs + 1
  /\ UNCHANGED mainVars
  /\ UNCHANGED << setupVars, worker, ready, wdVars, notify, arm, interrupted,
                  should_restart, observed, ghostVars >>

MonitorWrite_toggles ==
  /\ Alive
  /\ mon = "logged"
  /\ mon' = "done"
  /\ should_restart' = ~should_restart
  /\ UNCHANGED mainVars
  /\ UNCHANGED << setupVars, worker, ready, wdVars, notify, arm, interrupted,
                  observed, restartLogs, ghostVars >>

\* *should_restart_clone.lock().await = true
MonitorWrite ==
  /\ Alive
  /\ mon = "logged"
  /\ mon' = "done"
  /\ should_restart' = TRUE
  /\ UNCHANGED mainVars
  /\ UNCHANGED << setupVars, worker, ready, wdVars, notify, arm, interrupted,
                  observed, restartLogs, ghostVars >>

\* ----------------------------------------------------------- watchdog task
\* tokio::time::sleep(30 s) elapses
WatchdogTick ==
  /\ Alive
  /\ wd = "sleeping"
  /\ beats < MaxBeats
  /\ wd' = "sending"
  /\ beats' = beats + 1
  /\ UNCHANGED mainVars
  /\ UNCHANGED << setupVars, worker, ready, wdSent, wdLast, notify, mon, arm,
                  interrupted, should_restart, observed, restartLogs,
                  ghostVars >>

\* libsystemd::daemon::notify(false, &[NotifyState::Watchdog]), then loop
WatchdogNotify(ok) ==
  /\ Alive
  /\ wd \in { "sending", "cancelling" }
  /\ wdSent' = wdSent + 1
  /\ wdLast' = IF ok THEN "ok" ELSE "failed"
  /\ wd' = IF wd = "cancelling" THEN "aborted" ELSE "sleeping"
  /\ UNCHANGED mainVars
  /\ UNCHANGED << setupVars, worker, ready, beats, notify, mon, arm,
                  interrupted, should_restart, observed, restartLogs,
                  ghostVars >>

WatcherCallback_stopsOnError(res) ==
  /\ Alive
  /\ watching
  /\ callback_raises(res) => raises < MaxRaises
  /\ watching' = res.ok
  /\ last' = [called  |-> TRUE,
              res     |-> res,
              matched |-> res.ok /\ is_plugin_or_service(res),
              raised  |-> callback_raises(res)]
  /\ IF callback_raises(res)
       THEN /\ notify' = notify_one(notify)
            /\ raises' = raises + 1
            /\ raceRaise' =
                 IF /\ raceRaise = "none"
                    /\ Running
                    /\ worker \in { "idle", "running" }
                    /\ ~interrupted
                   THEN res.kind.tag
                   ELSE raceRaise
       ELSE UNCHANGED << notify, raises, raceRaise >>
  /\ UNCHANGED mainVars
  /\ UNCHANGED << dirExists, worker, ready, wdVars, mon, arm, interrupted,
                  should_restart, observed, restartLogs, contended, intFirst >>

\* ------------------------------------------------------------- environment
\* the closure passed to notify::recommended_watcher, run on the backend's
\* thread for each raw result
WatcherCallback(res) ==
  /\ Alive
  /\ watching
  /\ callback_raises(res) => raises < MaxRaises
  /\ last' = [called  |-> TRUE,
              res     |-> res,
              matched |-> res.ok /\ is_plugin_or_service(res),
              raised  |-> callback_raises(res)]
  /\ IF callback_raises(res)
       THEN /\ notify' = notify_one(notify)
            /\ raises' = raises + 1
            /\ raceRaise' =
                 IF /\ raceRaise = "none"
                    /\ Running
                    /\ worker \in { "idle", "running" }
                    /\ ~interrupted
                   THEN res.kind.tag
                   ELSE raceRaise
       ELSE UNCHANGED << notify, raises, raceRaise >>
  /\ UNCHANGED mainVars
  /\ UNCHANGED << setupVars, worker, ready, wdVars, mon, arm, interrupted,
                  should_restart, observed, restartLogs, contended, intFirst >>

\* the future of bot.start() becomes ready with r
WorkerComplete(r) ==
  /\ Alive
  /\ worker = "running"
  /\ worker' = r
  /\ contended' = (contended \/ (Running /\ RaceArmReady))
  /\ UNCHANGED mainVars
  /\ UNCHANGED << setupVars, ready, wdVars, notify, mon, arm, interrupted,
                  should_restart, observed, restartLogs, raises, last,
                  raceRaise, intFirst >>

\* SIGINT reaches the process.  The listener of tokio::signal::ctrl_c() is
\* installed by the first poll of the select! (which also starts the bot) and
\* stays installed for the rest of the process, so the signal is followed
\* from there on: while the race is pending it readies the ctrl_c arm, after
\* the race it finds that arm's future dropped.
Interrupt ==
  /\ Alive
  /\ worker \in { "running", "ok", "err" }
  /\ ~interrupted
  /\ interrupted' = TRUE
  /\ contended' = (contended \/ (Running /\ RaceArmReady))
  /\ intFirst' = (Running /\ worker = "running")
  /\ UNCHANGED mainVars
  /\ UNCHANGED << setupVars, worker, ready, wdVars, notify, mon, arm,
                  should_restart, observed, restartLogs, raises, last,
                  raceRaise >>

\* ----------------------------------------------------------- specifications
MainStep ==
  \/ \E res \in SetupResults : StartPluginWatcher(res)
  \/ \E ok \in BOOLEAN : BotNew(ok)
  \/ \E ok \in BOOLEAN : NotifyReady(ok)
  \/ SpawnWatchdog
  \/ SpawnMonitor
  \/ SelectBlock
  \/ SelectWorker
  \/ SelectChanged
  \/ SelectCtrlC
  \/ ArmSleepDone
  \/ AbortWatchdog
  \/ CheckResult
  \/ ReadFlag
  \/ Exit

MonitorStep ==
  \/ MonitorPoll
  \/ MonitorLog
  \/ MonitorWrite

WatchdogStep ==
  \/ WatchdogTick
  \/ \E ok \in BOOLEAN : WatchdogNotify(ok)

EnvStep ==
  \/ \E res \in CoreResults : WatcherCallback(res)
  \/ \E r \in { "ok", "err" } : WorkerComplete(r)
  \/ Interrupt

Next ==
  \/ MainStep
  \/ MonitorStep
  \/ WatchdogStep
  \/ EnvStep

Spec == Init /\ [][Next]_vars

\* The tokio runtime runs every runnable task: the main task and the monitor
\* task are polled when they can make progress.  Nothing obliges the
\* environment (file events, the bot finishing, Ctrl+C) to act.
LiveSpec ==
  /\ Init
  /\ [][Next]_vars
  /\ WF_vars(MainStep)
  /\ WF_vars(MonitorStep)

\* The watcher alone: setup, then the callback on every result of AllResults.
FilterNext ==
  \/ \E res \in SetupResults : StartPluginWatcher(res)
  \/ \E res \in AllResults : WatcherCallback(res)

FilterSpec == Init /\ [][FilterNext]_vars

\* ================================================================== claims
SetupFailed == pc # "start_watcher" /\ ~watching
RestartExit == pc = "exited" /\ exitCode = 0 /\ should_restart

\* the six suffixes of the specification: {_plugin, _service} x {so, dll, dylib}
RecognizedSuffixes ==
  { k \o e : k \in { P_plugin, P_service }, e \in { E_so, E_dll, E_dylib } }

\* n = stem \o suffix for some stem and some recognized suffix
NameHasSuffix(n) ==
  \E k \in 0..Len(n) : \E suf \in RecognizedSuffixes : n = SubSeq(n, 1, k) \o suf

PathRecognized(p) == p.comp = "Normal" /\ p.utf8 /\ NameHasSuffix(p.name)

SomePathRecognized(res) ==
  \E i \in 1..Len(res.paths) : PathRecognized(res.paths[i])

\* C1: once Running, a recognized create/modify/remove event leads to the
\* process exiting with code 0 and RestartFlag true, unless the bot finishes
\* or Ctrl+C arrives first; the process never stays blocked in the race.
C1_ChangeLeadsToRestartExit ==
  (raceRaise # "none")
    ~> (RestartExit \/ worker \in { "ok", "err" } \/ interrupted)

\* C2: the RestartFlag value read at shutdown is true if and only if the
\* Outcome of the race is PluginChanged.
C2_FlagIffPluginChanged ==
  flagRead # "unread" => (flagRead = "true" <=> outcome = "PluginChanged")

\* C3: a create event on a recognized artifact raised while the race is
\* pending, before the bot finished and before Ctrl+C, and with neither of
\* them arriving while the change arm was ready, resolves the race with
\* Outcome = PluginChanged and RestartFlag = true.
C3_CreateWinsRace ==
  (raceRaise = "Create" /\ ~contended /\ outcome # "None")
    => /\ outcome = "PluginChanged"
       /\ pc # "arm_sleep" => should_restart

\* C4: after the race was entered, the exit code is non-zero exactly when the
\* winning arm is the bot finishing with an error, whatever RestartFlag holds.
C4_ExitCodeNonZeroIffWorkerError ==
  (pc = "exited" /\ outcome # "None")
    => (exitCode # 0 <=> outcome = "WorkerErr")

C4_Witness ==
  pc = "exited" /\ outcome = "WorkerErr" /\ should_restart /\ exitCode # 0

\* C5 as stated: the bot finished with an error and no change was raised
\* before that => Outcome = WorkerCompleted(Err), RestartFlag false, exit
\* code non-zero.
C5_Original ==
  (worker = "err" /\ raises = 0 /\ outcome # "None")
    => /\ outcome = "WorkerErr"
       /\ ~should_restart
       /\ pc = "exited" => exitCode # 0

\* C5 amended: the bot finished with an error and, by the time the race
\* resolves, no change was raised and no Ctrl+C arrived => Outcome =
\* WorkerCompleted(Err) and RestartFlag false; that Outcome exits non-zero.
C5_WorkerErrorFirst ==
  /\ (worker = "err" /\ raises = 0 /\ ~interrupted /\ outcome # "None")
       => (outcome = "WorkerErr" /\ ~should_restart)
  /\ (outcome = "WorkerErr" /\ pc = "exited") => exitCode # 0

C5_Witness ==
  /\ worker = "err" /\ raises = 0 /\ ~interrupted
  /\ outcome = "WorkerErr" /\ pc = "exited" /\ exitCode = 1

\* C6 as stated: Ctrl+C while Running and before the bot finished, no change
\* ever raised, no bot error
\* => Outcome = Interrupted, RestartFlag false, exit code 0.
C6_Original ==
  (pc = "exited" /\ intFirst /\ raises = 0 /\ worker # "err")
    => (outcome = "Interrupted" /\ flagRead = "false" /\ exitCode = 0)

\* C6 amended: Ctrl+C while Running, no change ever raised, no bot error
\* => Outcome is Interrupted or WorkerCompleted(Ok), RestartFlag false, exit
\* code 0.
C6_InterruptOrCleanFinish ==
  (pc = "exited" /\ interrupted /\ raises = 0 /\ worker # "err")
    => /\ outcome \in { "Interrupted", "WorkerOk" }
       /\ flagRead = "false"
       /\ exitCode = 0

C6_Witness ==
  /\ pc = "exited" /\ interrupted /\ raises = 0 /\ worker = "running"
  /\ outcome = "Interrupted" /\ flagRead = "false" /\ exitCode = 0

\* C7: however many times the change signal is raised, the code waiting on
\* it observes one transition in total and logs one restart decision.
C7_SingleObservation == observed <= 1 /\ restartLogs <= 1

\* C8: the filter accepts an event's paths exactly when one of them has a
\* valid file name that ends with one of the six recognized suffixes.
C8_FilterAcceptsExactlySuffixed ==
  (last.called /\ last.res.ok) => (last.matched <=> SomePathRecognized(last.res))

C8_Witness ==
  /\ last.called /\ last.matched
  /\ last.res.paths = << File(X \o P_service \o E_dylib) >>

\* C9 as stated: the callback raises the change signal exactly when a path is
\* accepted and the kind is create, modify or remove, a metadata-only change
\* counting as another kind.
C9_Original ==
  last.called
    => (last.raised <=>
          /\ last.res.ok
          /\ SomePathRecognized(last.res)
          /\ last.res.kind.tag \in { "Create", "Modify", "Remove" }
          /\ last.res.kind.sub # "Metadata")

\* C9 amended: the callback raises the change signal exactly when a path is
\* accepted and the kind is Create, Modify (a metadata-only Modify included)
\* or Remove; Access, Any and Other kinds and backend errors raise nothing.
C9_RaiseIffRecognizedChange ==
  last.called
    => (last.raised <=>
          /\ last.res.ok
          /\ SomePathRecognized(last.res)
          /\ last.res.kind.tag \in { "Create", "Modify", "Remove" })

C9_Witness ==
  /\ last.called /\ last.raised /\ raises = 1 /\ notify.permit
  /\ last.res = OkEvent(<< File(X \o P_plugin \o E_so) >>, MkKind("Modify", "Metadata"))

\* C10: when directory creation, watcher creation or watch registration
\* fails, the process ends with an error before Running: no bot, no race, no
\* READY and no WATCHDOG notification.
C10_SetupFailureAbortsStartup ==
  SetupFailed
    => /\ pc = "exited" /\ exitCode # 0
       /\ worker = "none" /\ outcome = "None" /\ arm = "none" /\ mon = "unspawned"
       /\ ready = "none" /\ wd = "none" /\ wdSent = 0

C10_Witness ==
  SetupFailed /\ exitVia = "watch_failed" /\ pc = "exited" /\ exitCode = 1

\* the last callback invocation was handed an error of the backend
BackendErrorSeen == last.called /\ ~last.res.ok

\* C11: a backend error handed to the callback raises nothing, neither ends
\* the process nor stops the watch, and a recognized create/modify/remove
\* event delivered after it still raises the change signal.
C11_BackendErrorAbsorbed ==
  /\ [](BackendErrorSeen => ~last.raised)
  /\ [][ (last' # last /\ last'.called /\ ~last'.res.ok)
           => /\ UNCHANGED << notify, raises, mainVars, mon, arm, should_restart >>
              /\ watching /\ watching' ]_vars
  /\ [][ ( /\ BackendErrorSeen
           /\ last' # last
           /\ last'.res.ok
           /\ SomePathRecognized(last'.res)
           /\ last'.res.kind.tag \in { "Create", "Modify", "Remove" } )
           => /\ last'.raised
              /\ raises' = raises + 1
              /\ (notify'.permit \/ notify'.woken # { }) ]_vars

C11_Witness ==
  /\ BackendErrorSeen /\ watching /\ pc = "select"
  /\ raises = 0 /\ ~should_restart /\ exitCode = -1

\* C12: a READY or WATCHDOG notification, failed or not, changes only its own
\* record and moves its task on as a successful one does: the main task goes
\* on to spawn the watchdog, the watchdog loop goes back to sleep, and the
\* Outcome, RestartFlag and exit code are left to the race alone.
C12_NotificationFailuresAbsorbed ==
  /\ [][ ready' # ready
           => /\ pc' = "spawn_watchdog"
              /\ UNCHANGED << exitCode, exitVia, outcome, bot_result, flagRead,
                              should_restart, notify, mon, arm, worker, wdVars,
                              interrupted, setupVars >> ]_vars
  /\ [][ wdSent' # wdSent
           => /\ wd' = IF wd = "cancelling" THEN "aborted" ELSE "sleeping"
              /\ UNCHANGED << mainVars, should_restart, notify, mon, arm,
                              worker, ready, interrupted, setupVars >> ]_vars
  /\ []( (ready = "failed" \/ wdLast = "failed")
           => exitVia \in { "none", "worker_error", "restart_exit", "return_ok" } )

C12_Witness ==
  /\ ready = "failed" /\ wdLast = "failed" /\ wd = "sleeping"
  /\ pc = "select" /\ outcome = "None" /\ exitCode = -1

\* C13: one Outcome per process lifetime: the race is left once and never
\* re-entered, the Outcome and the value of the select! never change once
\* set, and the exit code follows that Outcome alone, whatever a losing arm
\* does later (a change raised, the bot finishing, Ctrl+C).
C13_ExactlyOneOutcome ==
  /\ [][ /\ pc # "select" /\ pc # "spawn_monitor" => pc' # "select"
         /\ outcome # "None" => outcome' = outcome
         /\ (outcome # "None" /\ pc # "arm_sleep") => bot_result' = bot_result
         /\ exitCode # -1 => exitCode' = exitCode ]_vars
  /\ []( outcome # "None" => pc # "select" )
  /\ []( (outcome # "None" /\ pc # "arm_sleep")
           => bot_result = IF outcome = "WorkerErr" THEN "Err" ELSE "Ok" )
  /\ []( (outcome # "None" /\ pc = "exited")
           => exitCode = IF outcome = "WorkerErr" THEN 1 ELSE 0 )

\* the change arm won; afterwards the bot failed and Ctrl+C arrived
C13_Witness ==
  /\ outcome = "PluginChanged" /\ worker = "err" /\ interrupted
  /\ pc = "exited" /\ exitCode = 0

\* C14: RestartFlag is written only by the winning change arm of the race:
\* its value changes in no other step, so in none outside the race, after the
\* race resolved or after the final read at shutdown.
C14_FlagWrittenOnlyInRace ==
  [][ should_restart' # should_restart
        => (pc = "arm_sleep" /\ pc' = "abort_watchdog") ]_vars

\* watchdog_handle.abort() has been called
AbortCalled == wd \in { "cancelling", "aborted" }

\* the main task is past line 83 on a path that went through the race
PastAbort ==
  \/ pc \in { "check_result", "read_flag", "exit_decision" }
  \/ pc = "exited" /\ outcome # "None"

\* C15 as stated: the watchdog is cancelled on every path before the exit
\* code is decided, and after that cancellation no WATCHDOG notification is
\* sent.
C15_Original ==
  /\ [](PastAbort => AbortCalled)
  /\ [][ AbortCalled => wdSent' = wdSent ]_vars

\* C15 amended: the watchdog is cancelled right after the select! on every
\* path and before the exit code is decided; after abort() no timer expiry
\* starts another notification, and at most the one notification in progress
\* when abort() was called still completes.
C15_WatchdogCancelled ==
  /\ [](PastAbort => AbortCalled)
  /\ [][ AbortCalled => (AbortCalled' /\ beats' = beats) ]_vars
  /\ [][ wd = "aborted" => wdSent' = wdSent ]_vars
  /\ [][ wd = "cancelling"
           => (wdSent' = wdSent \/ (wdSent' = wdSent + 1 /\ wd' = "aborted")) ]_vars

C15_Witness ==
  /\ wd = "aborted" /\ wdSent = beats /\ beats > 0
  /\ pc = "exited" /\ outcome = "WorkerErr"

\* C16: READY is attempted at most once, only after the watcher setup and the
\* bot construction succeeded, before any WATCHDOG notification and before
\* the race; it is never attempted when either setup step failed.
C16_ReadyOnceAfterSetup ==
  /\ [][ ready' # ready
           => /\ ready = "none"
              /\ watching /\ worker = "idle"
              /\ wd = "none" /\ wdSent = 0
              /\ arm = "none" /\ mon = "unspawned" /\ outcome = "None" ]_vars
  /\ []( (wd # "none" \/ wdSent > 0 \/ arm # "none" \/ outcome # "None")
           => ready # "none" )
  /\ []( (SetupFailed \/ exitVia = "bot_new_failed") => ready = "none" )
  /\ []( ready # "none" => (watching /\ worker # "none") )

C16_Witness ==
  /\ ready = "failed" /\ wdSent > 0 /\ outcome = "Interrupted" /\ pc = "exited"

\* C17: the restart flag starts false and is monotone: every write sets it to
\* true, so once true it is never false again, whichever of the monitor task
\* and the race arm wrote it and however the two writes interleave.
C17_RestartFlagMonotone ==
  /\ (pc = "start_watcher" => ~should_restart)
  /\ [][ should_restart => should_restart' ]_vars
  /\ [][ (mon' = "done" /\ mon # "done") => should_restart' ]_vars
  /\ [][ (pc = "arm_sleep" /\ pc' # pc) => should_restart' ]_vars

C17_Witness ==
  /\ should_restart /\ mon = "done" /\ outcome = "PluginChanged"
  /\ flagRead = "true" /\ pc = "exited"

\* a create/modify/remove event naming a recognized artifact was delivered
\* by the step
RecognizedChangeDelivered ==
  /\ last'.called /\ last'.res.ok
  /\ last'.res.kind.tag \in { "Create", "Modify", "Remove" }
  /\ SomePathRecognized(last'.res)

\* C18: no spurious restart: the flag is true, the outcome is PluginChanged or
\* the exit(0) restart path is taken only after the watcher delivered at
\* least one create/modify/remove event with a recognized artifact path;
\* interrupts, worker completion, backend errors and notification failures
\* alone never do it.
C18_NoSpuriousRestart ==
  /\ []( ( \/ should_restart
           \/ outcome = "PluginChanged"
           \/ exitVia = "restart_exit"
           \/ flagRead = "true"
           \/ mon \in { "woken", "logged", "done" }
           \/ notify.permit \/ notify.woken # { } ) => raises > 0 )
  /\ (pc = "start_watcher" => raises = 0)
  /\ [][ raises' # raises
           => (raises' = raises + 1 /\ RecognizedChangeDelivered) ]_vars

C18_Witness ==
  /\ exitVia = "restart_exit" /\ should_restart /\ raises = 1
  /\ interrupted /\ worker = "err" /\ ready = "failed"

\* raises stored in the Notify and not yet observed by a waiter
Pending == (IF notify.permit THEN 1 ELSE 0) + Cardinality(notify.woken)

\* neither the monitor task nor the race arm has polled its Notified yet
NoWaitYet == mon \in { "unspawned", "init" } /\ arm \in { "none", "init" }

\* C19: each raise of the change signal is consumed by at most one of the two
\* waiters (monitor task, race arm), never both; raises made while no waiter
\* is registered are kept as one pending permit, so any number k >= 1 of
\* raises before the first wait wake exactly one waiter once waiting begins
\* and are not lost.
C19_RaiseConsumedOnce ==
  /\ []( observed + Pending <= raises )
  /\ [][ raises' = raises
           => observed' + Pending' <= observed + Pending ]_vars
  /\ [][ observed' # observed
           => /\ observed' = observed + 1
              /\ Pending' = Pending - 1
              /\ \/ mon' = "woken" /\ mon # "woken" /\ arm' = arm
                 \/ arm' = "done" /\ arm # "done" /\ mon' = mon ]_vars
  /\ []( (NoWaitYet /\ raises >= 1)
           => (notify.permit /\ Pending = 1 /\ observed = 0) )
  /\ [][ ( /\ NoWaitYet /\ raises >= 1
           /\ (mon' \notin { "unspawned", "init" } \/ arm' \notin { "none", "init", "dropped" }) )
           => /\ observed' = 1 /\ Pending' = 0
              /\ notify'.waiters = << >>
              /\ (mon' = "woken") # (arm' = "done") ]_vars

C19_Witness ==
  /\ raises = MaxRaises /\ observed = 1 /\ Pending = 0
  /\ mon = "waiting" /\ arm = "done" /\ notify.waiters = << "monitor" >>

====
